---- MODULE Spec2Model ----
(***************************************************************************)
(* Model of principal.py: the season data pipeline (load_data, wrapped by  *)
(* st.cache_data) and the part of main that drives it.                     *)
(*                                                                         *)
(* Strings are TLA+ strings; the accented letters of the source's literals *)
(* are written without their accents ('Pais' for 'País'), and the dash     *)
(* placeholder of a statistics cell is written "-".                        *)
(***************************************************************************)
EXTENDS Integers, Sequences, FiniteSets, TLC

(***************************************************************************)
(* Bounds of the model.                                                    *)
(***************************************************************************)
\* number of script runs (user interactions) explored
MaxRuns == 3
\* largest number of body rows of a drawn table
MaxRows == 2
\* largest number of columns of a drawn table
MaxCols == 2

(***************************************************************************)
(* Module-level configuration of principal.py.                             *)
(***************************************************************************)
\* Python's None as a season code
None == "None"

COLUMN_TRANSLATIONS ==
    ( "Class." :> "Classificacao" @@
      "Pais" :> "Pais" @@
      "LgRk" :> "Posicao na Liga" @@
      "MP" :> "Jogos Disputados" @@
      "V" :> "Vitorias" @@
      "E" :> "Empates" @@
      "D" :> "Derrotas" @@
      "GP" :> "Gols pro" @@
      "GC" :> "Gols contra" @@
      "GD" :> "Diferenca de Gols" @@
      "Pt" :> "Pontos" @@
      "Pts/PPJ" :> "Pontos/Partida" @@
      "xG" :> "Gols previstos" @@
      "xGA" :> "xG sofrido" @@
      "xGD" :> "Diferenca xG" @@
      "xGD/90" :> "Diferenca xG/90" @@
      "Ultimos 5" :> "Ultimas cinco partidas" @@
      "Publico" :> "Comparecimento/Jogo" )

SEASONS ==
    ( "2023-2024 (Atual)" :> None @@
      "2022-2023" :> "2022-2023" @@
      "2021-2022" :> "2021-2022" @@
      "2020-2021" :> "2020-2021" @@
      "2019-2020" :> "2019-2020" @@
      "2018-2019" :> "2018-2019" )

SeasonCodes == { SEASONS[l] : l \in DOMAIN SEASONS }

Pages == { "Home", "Visao Geral", "Visualizacao de Dados" }

(***************************************************************************)
(* URL construction, lines 48-51.                                          *)
(***************************************************************************)
UrlBase == "https://fbref.com/pt/comps/Big5/"
UrlSuffix == "Maiores-5-Ligas-Europeias-Estatisticas"

\* Python truthiness of a season code: None and the empty string are false
Truthy(season_code) == season_code # None /\ season_code # ""

BuildUrlOnce(season_code) ==
    IF Truthy(season_code)
    THEN UrlBase \o season_code \o "/" \o UrlSuffix
    ELSE UrlBase \o UrlSuffix

BuildUrl(season_code) ==
    IF Truthy(season_code)
    THEN UrlBase \o season_code \o "/" \o season_code \o "-" \o UrlSuffix
    ELSE UrlBase \o UrlSuffix

(***************************************************************************)
(* Cell values of a pandas / polars frame.                                 *)
(***************************************************************************)
NaN == [k |-> "nan", n |-> 0, s |-> ""]
Null == [k |-> "null", n |-> 0, s |-> ""]
Num(n) == [k |-> "num", n |-> n, s |-> ""]
Str(s) == [k |-> "str", n |-> 0, s |-> s]

\* the cell texts pandas converts to a number, and the number each becomes
NumericTexts == { "10", "3" }
ParseNum(text) == CASE text = "10" -> 10 [] text = "3" -> 3 [] OTHER -> 0

Placeholder == "-"

(***************************************************************************)
(* pd.read_html, line 58: every <table> of the document becomes a frame;   *)
(* an empty cell becomes NaN, a column whose non-empty cells are all       *)
(* numeric becomes a numeric column, any other column keeps its texts.     *)
(* A table of the document is [header, cells]: per column the texts of its *)
(* header cells from the top header row down, and the body rows' texts.    *)
(***************************************************************************)
ColumnIsNumeric(cells, j) ==
    \A i \in 1..Len(cells) : cells[i][j] = "" \/ cells[i][j] \in NumericTexts

ColumnHasNaN(cells, j) == \E i \in 1..Len(cells) : cells[i][j] = ""

InferDtype(cells, j) ==
    IF ColumnIsNumeric(cells, j)
    THEN IF ColumnHasNaN(cells, j) THEN "float64" ELSE "int64"
    ELSE "object"

ReadCell(text, dtype) ==
    IF text = "" THEN NaN
    ELSE IF dtype = "object" THEN Str(text) ELSE Num(ParseNum(text))

\* a header of several stacked rows becomes a MultiIndex of tuples, a header of
\* one row an Index of strings
HeaderRows(t) == Len(t.header[1])

ReadTable(t) ==
    LET w == Len(t.header)
        dt == [ j \in 1..w |-> InferDtype(t.cells, j) ]
    IN  [ multi |-> HeaderRows(t) > 1,
          columns |-> IF HeaderRows(t) > 1 THEN t.header
                      ELSE [ j \in 1..w |-> t.header[j][1] ],
          dtypes |-> dt,
          rows |-> [ i \in 1..Len(t.cells) |->
                       [ j \in 1..w |-> ReadCell(t.cells[i][j], dt[j]) ] ] ]

\* the list of frames; pandas raises ValueError when the list would be empty
ReadHtml(text) == [ i \in 1..Len(text) |-> ReadTable(text[i]) ]

(***************************************************************************)
(* Header flattening, lines 61-62.                                         *)
(***************************************************************************)
RECURSIVE LStrip(_)
LStrip(s) ==
    IF Len(s) > 0 /\ SubSeq(s, 1, 1) = " " THEN LStrip(SubSeq(s, 2, Len(s))) ELSE s

RECURSIVE RStrip(_)
RStrip(s) ==
    IF Len(s) > 0 /\ SubSeq(s, Len(s), Len(s)) = " "
    THEN RStrip(SubSeq(s, 1, Len(s) - 1))
    ELSE s

\* str.strip()
Strip(s) == RStrip(LStrip(s))

\* ' '.join(col)
RECURSIVE Join(_)
Join(col) ==
    IF Len(col) = 0 THEN ""
    ELSE IF Len(col) = 1 THEN col[1]
    ELSE col[1] \o " " \o Join(Tail(col))

FlattenNoStrip(df_pd) ==
    IF df_pd.multi
    THEN [ df_pd EXCEPT !.multi = FALSE,
                        !.columns = [ j \in 1..Len(df_pd.columns) |->
                                        Join(df_pd.columns[j]) ] ]
    ELSE df_pd

FlattenColumns(df_pd) ==
    IF df_pd.multi
    THEN [ df_pd EXCEPT !.multi = FALSE,
                        !.columns = [ j \in 1..Len(df_pd.columns) |->
                                        Strip(Join(df_pd.columns[j])) ] ]
    ELSE df_pd

(***************************************************************************)
(* Column translation, line 63: DataFrame.rename(columns=mapping).         *)
(***************************************************************************)
RenameKnownOnly(df_pd) ==
    [ df_pd EXCEPT !.columns =
        [ j \in 1..Len(df_pd.columns) |->
            IF df_pd.columns[j] \in DOMAIN COLUMN_TRANSLATIONS
            THEN COLUMN_TRANSLATIONS[df_pd.columns[j]]
            ELSE "" ] ]

Rename(df_pd) ==
    [ df_pd EXCEPT !.columns =
        [ j \in 1..Len(df_pd.columns) |->
            IF df_pd.columns[j] \in DOMAIN COLUMN_TRANSLATIONS
            THEN COLUMN_TRANSLATIONS[df_pd.columns[j]]
            ELSE df_pd.columns[j] ] ]

(***************************************************************************)
(* pl.from_pandas(df_pd).drop_nulls(), line 65.                            *)
(***************************************************************************)
\* polars refuses a frame whose column names are not unique (ValueError)
UniqueColumns(df_pd) ==
    \A i, j \in 1..Len(df_pd.columns) :
        df_pd.columns[i] = df_pd.columns[j] => i = j

PolarsDtype(dtype) ==
    CASE dtype = "int64" -> "Int64"
      [] dtype = "float64" -> "Float64"
      [] OTHER -> "String"

\* nan_to_null defaults to True: every NaN becomes a null
NanToNull(v) == IF v = NaN THEN Null ELSE v

FromPandasKeepNaN(df_pd) ==
    [ columns |-> df_pd.columns,
      dtypes |-> [ j \in 1..Len(df_pd.dtypes) |-> PolarsDtype(df_pd.dtypes[j]) ],
      rows |-> df_pd.rows ]

FromPandas(df_pd) ==
    [ columns |-> df_pd.columns,
      dtypes |-> [ j \in 1..Len(df_pd.dtypes) |-> PolarsDtype(df_pd.dtypes[j]) ],
      rows |-> [ i \in 1..Len(df_pd.rows) |->
                   [ j \in 1..Len(df_pd.rows[i]) |-> NanToNull(df_pd.rows[i][j]) ] ] ]

HasNull(row) == \E j \in 1..Len(row) : row[j] = Null

RECURSIVE KeepRows(_)
KeepRows(rows) ==
    IF rows = <<>> THEN <<>>
    ELSE IF HasNull(Head(rows)) THEN KeepRows(Tail(rows))
    ELSE <<Head(rows)>> \o KeepRows(Tail(rows))

DropNulls(df) == [ df EXCEPT !.rows = KeepRows(df.rows) ]

(***************************************************************************)
(* The try block of load_data, lines 58-66, on the text of a response.     *)
(***************************************************************************)
NoneDF == [none |-> TRUE]
Unset == [unset |-> TRUE]

Raised(e) == [ok |-> FALSE, exc |-> e, df |-> NoneDF]
Returned(df) == [ok |-> TRUE, exc |-> "", df |-> df]

ExcConnection == "ConnectionError"
ExcNoTables == "No tables found"
ExcDuplicate == "Polars dataframes must have unique string column names"

TryBody(text) ==
    LET tables == ReadHtml(text)
    IN  IF Len(tables) = 0 THEN Raised(ExcNoTables)
        ELSE LET df_pd == Rename(FlattenColumns(tables[1]))
             IN  IF ~UniqueColumns(df_pd) THEN Raised(ExcDuplicate)
                 ELSE Returned(DropNulls(FromPandas(df_pd)))

\* `except Exception` catches every exception the try block raises
CatchesRequestsOnly(e) == e = ExcConnection

Catches(e) == TRUE

ErrorMessage(e) == "Erro ao carregar dados: " \o e

(***************************************************************************)
(* st.cache_data, line 45: the return value of a call and the elements it  *)
(* drew are stored under the call's argument, whatever the value is, and   *)
(* replayed by every later call with that argument.                        *)
(***************************************************************************)
Absent == [present |-> FALSE, value |-> Unset, messages |-> <<>>]

EmptyCache == [ k \in SeasonCodes |-> Absent ]

CacheHas(c, key) == c[key].present

CacheStoreNothing(c, key, value, messages) == c

CacheStore(c, key, value, messages) ==
    [ c EXCEPT ![key] = [present |-> TRUE, value |-> value, messages |-> messages] ]

(***************************************************************************)
(* The documents and responses the site may answer with.                   *)
(***************************************************************************)
TableCountries ==
    [ header |-> << <<"", "Pais">>, <<"Geral", "MP">> >>,
      cells |-> << <<"eng", "10">>, <<"es", "">> >> ]

TableTeams ==
    [ header |-> << <<"Equipe">>, <<"V">> >>,
      cells |-> << <<"Arsenal", "3">>, <<"Chelsea", "-">> >> ]

Docs == { <<>>, <<TableCountries>>, <<TableTeams, TableCountries>> }

NoResponse == [kind |-> "none", status |-> 0, text |-> <<>>]

Responses ==
    { [kind |-> "exception", status |-> 0, text |-> <<>>] } \cup
    { [kind |-> "http", status |-> st, text |-> d] : st \in {200, 404}, d \in Docs }

(***************************************************************************)
(* State.                                                                  *)
(***************************************************************************)
VARIABLES
    pc,              \* position of the script run
    page,            \* main: page
    selected_season, \* main: selected_season
    season_code,     \* main: season_code, the argument of load_data
    df,              \* main: df, the value load_data returned
    url,             \* load_data: url
    response,        \* load_data: response
    exc,             \* the exception in flight
    errors,          \* the st.error messages on the screen of this run
    rendered,        \* the page drawn by this run
    cache,           \* the store of st.cache_data
    runs,            \* script runs started
    runLookups,      \* calls of the cached load_data in this run
    runGets,         \* requests.get calls in this run
    runNorms,        \* executions of lines 58-66 in this run
    fetchCount,      \* requests.get calls per season code
    normCount,       \* executions of lines 58-66 per season code
    requests,        \* the (season code, url) pairs requested so far
    lastFailed,      \* season codes whose latest finished call returned None
    firstResult,     \* per season code, the first table a call returned
    nStage,          \* position in the step-by-step run of lines 58-65
    nDoc,            \* the document being normalized
    nExtracted,      \* tables[0]
    nFlat,           \* the frame after lines 61-62
    nRenamed,        \* the frame after line 63
    nPolars,         \* pl.from_pandas(df_pd)
    nOut,            \* .drop_nulls()
    nAgain           \* drop_nulls of nOut

mainVars == << pc, page, selected_season, season_code, df, url, response, exc,
               errors, rendered, cache, runs, runLookups, runGets, runNorms,
               fetchCount, normCount, requests, lastFailed, firstResult >>

normVars == << nStage, nDoc, nExtracted, nFlat, nRenamed, nPolars, nOut, nAgain >>

vars == << mainVars, normVars >>

InitMain ==
    /\ pc = "idle"
    /\ page = "Home"
    /\ selected_season = "2023-2024 (Atual)"
    /\ season_code = None
    /\ df = Unset
    /\ url = ""
    /\ response = NoResponse
    /\ exc = ""
    /\ errors = <<>>
    /\ rendered = ""
    /\ cache = EmptyCache
    /\ runs = 0
    /\ runLookups = 0
    /\ runGets = 0
    /\ runNorms = 0
    /\ fetchCount = [ k \in SeasonCodes |-> 0 ]
    /\ normCount = [ k \in SeasonCodes |-> 0 ]
    /\ requests = {}
    /\ lastFailed = {}
    /\ firstResult = [ k \in SeasonCodes |-> Unset ]

InitNormOff ==
    /\ nStage = "off"
    /\ nDoc = <<>>
    /\ nExtracted = Unset
    /\ nFlat = Unset
    /\ nRenamed = Unset
    /\ nPolars = Unset
    /\ nOut = Unset
    /\ nAgain = Unset

Init == InitMain /\ InitNormOff

(***************************************************************************)
(* main, lines 96-108, and what follows the check of df.                   *)
(***************************************************************************)
\* lines 98-102: a script run starts with the widgets' values
Main(p, label) ==
    /\ pc \in {"idle", "stopped", "rendered", "raised"}
    /\ runs < MaxRuns
    /\ runs' = runs + 1
    /\ page' = p
    /\ selected_season' = label
    /\ season_code' = SEASONS[label]
    /\ df' = Unset
    /\ url' = ""
    /\ response' = NoResponse
    /\ exc' = ""
    /\ errors' = <<>>
    /\ rendered' = ""
    /\ runLookups' = 0
    /\ runGets' = 0
    /\ runNorms' = 0
    /\ pc' = "load_data"
    /\ UNCHANGED << cache, fetchCount, normCount, requests, lastFailed, firstResult >>
    /\ UNCHANGED normVars

\* line 105 on a stored argument: the stored value and messages are replayed
CacheHit ==
    /\ pc = "load_data"
    /\ CacheHas(cache, season_code)
    /\ runLookups' = runLookups + 1
    /\ df' = cache[season_code].value
    /\ errors' = errors \o cache[season_code].messages
    /\ pc' = "check"
    /\ UNCHANGED << page, selected_season, season_code, url, response, exc, rendered,
                    cache, runs, runGets, runNorms, fetchCount, normCount, requests,
                    lastFailed, firstResult >>
    /\ UNCHANGED normVars

\* line 105 on a new argument, lines 48-57: the url and the GET
HttpGet ==
    /\ pc = "load_data"
    /\ ~CacheHas(cache, season_code)
    /\ runLookups' = runLookups + 1
    /\ url' = BuildUrl(season_code)
    /\ runGets' = runGets + 1
    /\ fetchCount' = [ fetchCount EXCEPT ![season_code] = @ + 1 ]
    /\ requests' = requests \cup { [key |-> season_code, url |-> url'] }
    /\ \E r \in Responses :
          /\ response' = r
          /\ IF r.kind = "exception"
             THEN exc' = ExcConnection /\ pc' = "except"
             ELSE exc' = exc /\ pc' = "try"
    /\ UNCHANGED << page, selected_season, season_code, df, errors, rendered, cache,
                    runs, runNorms, normCount, lastFailed, firstResult >>
    /\ UNCHANGED normVars

\* lines 58-66: the frame is built and returned, and the cache stores it
TryReturn ==
    /\ pc = "try"
    /\ runNorms' = runNorms + 1
    /\ normCount' = [ normCount EXCEPT ![season_code] = @ + 1 ]
    /\ LET r == TryBody(response.text)
       IN  IF r.ok
           THEN /\ df' = r.df
                /\ cache' = CacheStore(cache, season_code, r.df, <<>>)
                /\ firstResult' = IF firstResult[season_code] = Unset
                                  THEN [ firstResult EXCEPT ![season_code] = r.df ]
                                  ELSE firstResult
                /\ exc' = exc
                /\ pc' = "check"
           ELSE /\ exc' = r.exc
                /\ pc' = "except"
                /\ UNCHANGED << df, cache, firstResult >>
    /\ UNCHANGED << page, selected_season, season_code, url, response, errors,
                    rendered, runs, runLookups, runGets, fetchCount, requests,
                    lastFailed >>
    /\ UNCHANGED normVars

\* lines 68-70: the message is drawn, None is returned, and the cache stores it
Except ==
    /\ pc = "except"
    /\ IF Catches(exc)
       THEN /\ errors' = Append(errors, ErrorMessage(exc))
            /\ df' = NoneDF
            /\ cache' = CacheStore(cache, season_code, NoneDF, <<ErrorMessage(exc)>>)
            /\ pc' = "check"
       ELSE /\ pc' = "raised"
            /\ UNCHANGED << errors, df, cache >>
    /\ UNCHANGED << page, selected_season, season_code, url, response, exc, rendered,
                    runs, runLookups, runGets, runNorms, fetchCount, normCount,
                    requests, lastFailed, firstResult >>
    /\ UNCHANGED normVars

\* lines 107-108: st.stop() ends the run
Stop ==
    /\ pc = "check"
    /\ df = NoneDF
    /\ pc' = "stopped"
    /\ lastFailed' = lastFailed \cup {season_code}
    /\ UNCHANGED << page, selected_season, season_code, df, url, response, exc,
                    errors, rendered, cache, runs, runLookups, runGets, runNorms,
                    fetchCount, normCount, requests, firstResult >>
    /\ UNCHANGED normVars

RenderUnchecked ==
    /\ pc = "check"
    /\ rendered' = page
    /\ pc' = "rendered"
    /\ lastFailed' = lastFailed \ {season_code}
    /\ UNCHANGED << page, selected_season, season_code, df, url, response, exc,
                    errors, cache, runs, runLookups, runGets, runNorms,
                    fetchCount, normCount, requests, firstResult >>
    /\ UNCHANGED normVars

\* lines 110-198: the selected page is drawn from df
Render ==
    /\ pc = "check"
    /\ df # NoneDF
    /\ rendered' = page
    /\ pc' = "rendered"
    /\ lastFailed' = lastFailed \ {season_code}
    /\ UNCHANGED << page, selected_season, season_code, df, url, response, exc,
                    errors, cache, runs, runLookups, runGets, runNorms,
                    fetchCount, normCount, requests, firstResult >>
    /\ UNCHANGED normVars

Next ==
    \/ \E p \in Pages, label \in DOMAIN SEASONS : Main(p, label)
    \/ CacheHit
    \/ HttpGet
    \/ TryReturn
    \/ Except
    \/ Stop
    \/ Render

Spec == Init /\ [][Next]_vars

(***************************************************************************)
(* Lines 58-65 one statement at a time, on every document of bounded size. *)
(***************************************************************************)
FlatNames == { <<"MP">>, <<"Pais">>, <<"Equipe">>, <<"Jogos Disputados">> }

HeaderTuples == { <<"Geral", "MP">>, <<"Geral", "V">>, <<"", "MP">>, <<"Pais", "">> }

CellTexts == { "", "10", Placeholder }

\* pandas hands out distinct column labels
Distinct(cols) == \A i, j \in 1..Len(cols) : cols[i] = cols[j] => i = j

HeadersOf(w) ==
    { x \in [1..w -> FlatNames] : Distinct(x) } \cup
    { x \in [1..w -> HeaderTuples] : Distinct(x) }

TablesOf(w, r) ==
    { [header |-> h, cells |-> c] : h \in HeadersOf(w), c \in [1..r -> [1..w -> CellTexts]] }

\* a document without a table, or with one table of w columns and r rows
IsNormDoc(d) ==
    \/ d = <<>>
    \/ \E w \in 1..MaxCols, r \in 0..MaxRows : \E t \in TablesOf(w, r) : d = <<t>>

InitNorm ==
    /\ InitMain
    /\ nStage = "html"
    /\ IsNormDoc(nDoc)
    /\ nExtracted = Unset
    /\ nFlat = Unset
    /\ nRenamed = Unset
    /\ nPolars = Unset
    /\ nOut = Unset
    /\ nAgain = Unset

\* lines 58-59
NReadHtml ==
    /\ nStage = "html"
    /\ LET tables == ReadHtml(nDoc)
       IN  IF Len(tables) = 0
           THEN nStage' = "error" /\ nExtracted' = nExtracted
           ELSE nStage' = "read" /\ nExtracted' = tables[1]
    /\ UNCHANGED << nDoc, nFlat, nRenamed, nPolars, nOut, nAgain >>
    /\ UNCHANGED mainVars

\* lines 61-62
NFlatten ==
    /\ nStage = "read"
    /\ nFlat' = FlattenColumns(nExtracted)
    /\ nStage' = "flat"
    /\ UNCHANGED << nDoc, nExtracted, nRenamed, nPolars, nOut, nAgain >>
    /\ UNCHANGED mainVars

\* line 63
NRename ==
    /\ nStage = "flat"
    /\ nRenamed' = Rename(nFlat)
    /\ nStage' = "renamed"
    /\ UNCHANGED << nDoc, nExtracted, nFlat, nPolars, nOut, nAgain >>
    /\ UNCHANGED mainVars

\* line 65, pl.from_pandas
NFromPandas ==
    /\ nStage = "renamed"
    /\ IF UniqueColumns(nRenamed)
       THEN nStage' = "polars" /\ nPolars' = FromPandas(nRenamed)
       ELSE nStage' = "error" /\ nPolars' = nPolars
    /\ UNCHANGED << nDoc, nExtracted, nFlat, nRenamed, nOut, nAgain >>
    /\ UNCHANGED mainVars

\* line 65, .drop_nulls()
NDropNulls ==
    /\ nStage = "polars"
    /\ nOut' = DropNulls(nPolars)
    /\ nStage' = "done"
    /\ UNCHANGED << nDoc, nExtracted, nFlat, nRenamed, nPolars, nAgain >>
    /\ UNCHANGED mainVars

\* drop_nulls on the returned frame
NDropNullsAgain ==
    /\ nStage = "done"
    /\ nAgain' = DropNulls(nOut)
    /\ nStage' = "again"
    /\ UNCHANGED << nDoc, nExtracted, nFlat, nRenamed, nPolars, nOut >>
    /\ UNCHANGED mainVars

NextNorm ==
    \/ NReadHtml
    \/ NFlatten
    \/ NRename
    \/ NFromPandas
    \/ NDropNulls
    \/ NDropNullsAgain

SpecNorm == InitNorm /\ [][NextNorm]_vars

(***************************************************************************)
(* Properties of the cache and of main, under Spec.                        *)
(***************************************************************************)
Returned_pc == pc \in {"check", "stopped", "rendered"}

IsTable(x) == x # NoneDF /\ x # Unset

\* C1: failures are not cached: when the latest finished load_data call with
\* a season code returned None, the next call with that season code performs
\* a new HTTP GET instead of returning a stored None.
C1_FailureNotCached ==
    (pc = "check" /\ season_code \in lastFailed) => runGets = 1

\* C2: cache hit: once a call with a season code has returned a table, every
\* later call with that code returns the same table without a GET or a run of
\* the normalizing lines, so the code's GET count stays at 1 whatever other
\* codes are looked up.
C2_CacheHit ==
    \A k \in SeasonCodes :
        IsTable(firstResult[k]) =>
            /\ fetchCount[k] = 1
            /\ normCount[k] = 1
            /\ (pc = "load_data" /\ season_code = k) => CacheHas(cache, k)
            /\ (Returned_pc /\ season_code = k) => df = firstResult[k]

C2_Witness ==
    /\ pc = "check"
    /\ runs = 3
    /\ runGets = 0
    /\ runNorms = 0
    /\ IsTable(df)
    /\ df = firstResult[season_code]
    /\ \E k \in SeasonCodes : k # season_code /\ fetchCount[k] = 1

Is2xx(status) == status >= 200 /\ status < 300

\* C3: a response with a non-2xx status is a fetch failure: whatever its body,
\* load_data draws one error and returns None.
C3_Non2xxIsFailure ==
    (Returned_pc /\ runGets = 1 /\ response.kind = "http" /\ ~Is2xx(response.status))
        => (df = NoneDF /\ Len(errors) = 1)

\* C4: when the GET raises or the document holds no table, load_data draws one
\* error message and returns None; no exception leaves load_data; a call that
\* succeeds returns a table and draws no error.
C4_FailureReported ==
    /\ pc # "raised"
    /\ Returned_pc =>
          /\ df = NoneDF \/ IsTable(df)
          /\ df = NoneDF => Len(errors) = 1
          /\ IsTable(df) => errors = <<>>
          /\ (runGets = 1 /\ (response.kind = "exception" \/ Len(response.text) = 0))
                => df = NoneDF
          /\ (runGets = 1 /\ response.kind = "http" /\ Len(response.text) > 0)
                => /\ IsTable(df)
                   /\ \A i \in 1..Len(df.rows) : Len(df.rows[i]) = Len(df.columns)

C4_Witness ==
    /\ pc = "check"
    /\ runGets = 1
    /\ response.kind = "http"
    /\ Len(response.text) = 0
    /\ df = NoneDF
    /\ errors = << ErrorMessage(ExcNoTables) >>

\* C5: the URL requested for the current-season code is the base listing URL,
\* the URL for any other season code holds the code twice, as the path segment
\* after Big5/ and as the prefix of the file name; distinct codes get distinct
\* URLs.
UrlHoldsSeason(u, s) ==
    LET b == Len(UrlBase)
        n == Len(s)
    IN  /\ Len(u) = b + n + 1 + n + 1 + Len(UrlSuffix)
        /\ SubSeq(u, 1, b) = UrlBase
        /\ SubSeq(u, b + 1, b + n) = s
        /\ SubSeq(u, b + n + 1, b + n + 1) = "/"
        /\ SubSeq(u, b + n + 2, b + n + 1 + n) = s
        /\ SubSeq(u, b + n + 2 + n, Len(u)) = "-" \o UrlSuffix

C5_UrlConstruction ==
    /\ \A r \in requests :
          IF r.key = None
          THEN r.url = "https://fbref.com/pt/comps/Big5/Maiores-5-Ligas-Europeias-Estatisticas"
          ELSE UrlHoldsSeason(r.url, r.key)
    /\ \A r1, r2 \in requests : r1.key # r2.key => r1.url # r2.url

C5_Witness ==
    /\ [key |-> None, url |-> UrlBase \o UrlSuffix] \in requests
    /\ \E r \in requests :
          /\ r.key = "2021-2022"
          /\ r.url = UrlBase \o "2021-2022/2021-2022-" \o UrlSuffix

\* C10: no automatic retry: a script run calls load_data at most once, a call
\* performs at most one GET and one run of the normalizing lines, and a run
\* whose call returned None stops without drawing a page.
C10_NoRetry ==
    /\ runLookups <= 1
    /\ runGets <= 1
    /\ runNorms <= 1
    /\ runNorms <= runGets /\ runGets <= runLookups
    /\ pc = "rendered" => IsTable(df)
    /\ rendered # "" => IsTable(df)
    /\ (Returned_pc /\ df = NoneDF /\ pc # "check") => (pc = "stopped" /\ rendered = "")

C10_Witness ==
    /\ pc = "stopped"
    /\ runLookups = 1
    /\ runGets = 1
    /\ runNorms = 1
    /\ df = NoneDF
    /\ rendered = ""

(***************************************************************************)
(* Properties of lines 58-65, under SpecNorm.                              *)
(***************************************************************************)
NoNaN(row) == \A j \in 1..Len(row) : row[j] # NaN

PastFlat == nStage \in {"flat", "renamed", "polars", "done", "again"}
PastRename == nStage \in {"renamed", "polars", "done", "again"}
PastDrop == nStage \in {"done", "again"}

\* C6: null-row elimination: the returned frame holds exactly the rows of the
\* extracted table that have no missing value, in their order; so it has at
\* most as many rows, as many exactly when no row had a missing value, and
\* eliminating again changes nothing.
C6_NullRowElimination ==
    /\ PastDrop =>
          /\ nOut.rows = SelectSeq(nExtracted.rows, NoNaN)
          /\ Len(nOut.rows) <= Len(nExtracted.rows)
          /\ (Len(nOut.rows) = Len(nExtracted.rows))
                <=> (\A i \in 1..Len(nExtracted.rows) : NoNaN(nExtracted.rows[i]))
    /\ nStage = "again" => nAgain = nOut

C6_Witness ==
    /\ nStage = "again"
    /\ Len(nExtracted.rows) = 2
    /\ ~NoNaN(nExtracted.rows[1])
    /\ nOut.rows = << nExtracted.rows[2] >>
    /\ nAgain = nOut

\* C7: a row holding a non-numeric placeholder in a numeric column (a column
\* holding a number in another row) is not in the returned frame.
HoldsNumber(j) == \E i \in 1..Len(nDoc[1].cells) : nDoc[1].cells[i][j] \in NumericTexts

C7_PlaceholderRowExcluded ==
    PastDrop =>
        \A i \in 1..Len(nOut.rows) : \A j \in 1..Len(nOut.rows[i]) :
            HoldsNumber(j) => nOut.rows[i][j] # Str(Placeholder)

\* C8: column translation is a pure rename: the renamed column list has the
\* length and order of the flattened one, a name that is a key of
\* COLUMN_TRANSLATIONS is replaced by its entry and any other name is kept;
\* the rows are untouched, no column is merged or dropped on the way to the
\* returned frame, and 'Pais' and 'Equipe' stay as they are.
IsKey(name) ==
    name \in { "Class.", "Pais", "LgRk", "MP", "V", "E", "D", "GP", "GC", "GD", "Pt",
               "Pts/PPJ", "xG", "xGA", "xGD", "xGD/90", "Ultimos 5", "Publico" }

C8_PureRename ==
    /\ PastRename =>
          /\ Len(nRenamed.columns) = Len(nFlat.columns)
          /\ \A j \in 1..Len(nFlat.columns) :
                /\ IsKey(nFlat.columns[j])
                      => nRenamed.columns[j] = COLUMN_TRANSLATIONS[nFlat.columns[j]]
                /\ ~IsKey(nFlat.columns[j]) => nRenamed.columns[j] = nFlat.columns[j]
                /\ nFlat.columns[j] \in {"Pais", "Equipe"}
                      => nRenamed.columns[j] = nFlat.columns[j]
          /\ nRenamed.rows = nFlat.rows
    /\ PastDrop => nOut.columns = nRenamed.columns

C8_Witness ==
    /\ nStage = "done"
    /\ nFlat.columns = << "Equipe", "MP" >>
    /\ nOut.columns = << "Equipe", "Jogos Disputados" >>
    /\ Len(nFlat.rows) = 2

\* C9: header flattening: each column of a multi-level header is named by its
\* levels joined with one space and trimmed, a single-level header is left as
\* it is, and the translation is looked up on the flattened name.
JoinedTrimmed(a, b) ==
    IF a = "" THEN b ELSE IF b = "" THEN a ELSE a \o " " \o b

C9_HeaderFlattening ==
    /\ PastFlat =>
          /\ nFlat.rows = nExtracted.rows
          /\ IF nExtracted.multi
             THEN /\ Len(nFlat.columns) = Len(nExtracted.columns)
                  /\ \A j \in 1..Len(nFlat.columns) :
                        nFlat.columns[j] =
                            JoinedTrimmed(nExtracted.columns[j][1], nExtracted.columns[j][2])
             ELSE nFlat.columns = nExtracted.columns
    /\ (PastRename /\ nExtracted.multi) =>
          \A j \in 1..Len(nExtracted.columns) :
              /\ nExtracted.columns[j] = <<"", "MP">> => nRenamed.columns[j] = "Jogos Disputados"
              /\ nExtracted.columns[j] = <<"Geral", "MP">> => nRenamed.columns[j] = "Geral MP"

C9_Witness ==
    /\ nStage = "renamed"
    /\ nExtracted.multi
    /\ nExtracted.columns = << <<"Geral", "MP">>, <<"Geral", "V">> >>
    /\ nFlat.columns = << "Geral MP", "Geral V" >>
    /\ nRenamed.columns = nFlat.columns

====
